---- MODULE Spec2Model ----
(***************************************************************************)
(* A model of src/stopwatch-JF/script.js: the stopwatch, the countdown,    *)
(* the keypad input of the countdown and the screen router, as one state   *)
(* machine over a clock (Date.now()) that only moves forward.              *)
(*                                                                         *)
(* Every object of the script is one variable holding a record of its      *)
(* fields.  Beside the fields of the class, an engine's record holds what  *)
(* the browser keeps for it: the text of its button (textContent), the     *)
(* text its display shows, and the number of interval callbacks it has     *)
(* registered with setInterval and not yet cleared.  The field `log` holds *)
(* the arguments of the DisplayManager.update calls of the handler that    *)
(* ran last on the object.                                                 *)
(*                                                                         *)
(* Four variables record the run, and nothing of the script reads them:    *)
(* lastCall is the handler the last step ran: its name, the branch it      *)
(* took and its arguments (for a key of the keypad: the key, and inputMs   *)
(* before the press); swRun holds the instant of the stopwatch's last      *)
(* start, elapsedTime at that start (base) and the total length of its     *)
(* completed Running intervals since the last clear; cdRun tells whether   *)
(* the countdown was configured while stopped and started since, or runs   *)
(* since a continueCountdown(), and when, and for the latter remainingTime *)
(* at that call (base); keyed counts how many keys of                      *)
(* 1,2,3,4,5,6 have been pressed, in this order and nothing else, since    *)
(* the keypad's input was last empty after a clear.                        *)
(*                                                                         *)
(* The texts of the buttons and of the displays before the script runs     *)
(* come from index.html: "Start" and 00:00:00 000 are assumed.  Date.now() *)
(* is taken to start at 0 and never to go back.                            *)
(***************************************************************************)
EXTENDS Integers, Sequences, FiniteSets

VARIABLES now, stopwatchLogic, countdownInputManager, countdownLogic,
          appRouter, lastCall, swRun, cdRun, keyed

vars == <<now, stopwatchLogic, countdownInputManager, countdownLogic,
          appRouter, lastCall, swRun, cdRun, keyed>>

(***************************************************************************)
(* Bounds of the model.                                                    *)
(***************************************************************************)
\* The clock stops advancing at MaxNow.
MaxNow == 3
\* One Advance step moves the clock by 1..MaxStep.
MaxStep == 2
\* setInitialTime is called directly with 1..MaxInitial (and the values of
\* SetInitialInputs).
MaxInitial == 2

(***************************************************************************)
(* The constants of the script.                                            *)
(***************************************************************************)
MS_PER_HOUR == 3600000
MS_PER_MINUTE == 60000
MS_PER_SECOND == 1000
MAX_COUNTDOWN_MS == 24 * MS_PER_HOUR - 1

(***************************************************************************)
(* JavaScript arithmetic and strings.  A string is a sequence of           *)
(* one-character strings.                                                  *)
(***************************************************************************)
\* a % b of JavaScript for b > 0: the sign of the result is the sign of a.
JsRem(a, b) == IF a >= 0 THEN a % b ELSE 0 - ((0 - a) % b)

\* Math.floor(a / b) for b > 0.
FloorDiv(a, b) == a \div b

DigitChars == <<"0", "1", "2", "3", "4", "5", "6", "7", "8", "9">>

RECURSIVE NatToString(_)
NatToString(n) ==
    IF n < 10 THEN <<DigitChars[n + 1]>>
    ELSE NatToString(n \div 10) \o <<DigitChars[(n % 10) + 1]>>

\* String(n) and n.toString() of an integer.
toString(n) == IF n < 0 THEN <<"-">> \o NatToString(0 - n) ELSE NatToString(n)

\* s.padStart(width, '0')
RECURSIVE PadStart(_, _)
PadStart(s, width) == IF Len(s) >= width THEN s ELSE PadStart(<<"0">> \o s, width)

\* s.slice(-k): the last k characters (the whole string when it is shorter).
SliceLast(s, k) == IF Len(s) <= k THEN s ELSE SubSeq(s, Len(s) - k + 1, Len(s))

\* s.slice(-from, -to) for from > to >= 0, to = 0 standing for the end.
SliceBetween(s, from, to) ==
    LET lo == IF Len(s) - from < 0 THEN 0 ELSE Len(s) - from
        hi == IF Len(s) - to < 0 THEN 0 ELSE Len(s) - to
    IN  IF lo >= hi THEN <<>> ELSE SubSeq(s, lo + 1, hi)

\* s.slice(0, -k)
SliceHead(s, k) == IF Len(s) <= k THEN <<>> ELSE SubSeq(s, 1, Len(s) - k)

DigitValue(c) == CHOOSE i \in 0..9 : DigitChars[i + 1] = c

\* parseInt(s) of a non-empty string of decimal digits.
RECURSIVE ParseInt(_)
ParseInt(s) ==
    IF Len(s) = 0 THEN 0
    ELSE 10 * ParseInt(SubSeq(s, 1, Len(s) - 1)) + DigitValue(s[Len(s)])

(***************************************************************************)
(* TimeFormatter and DisplayManager.                                       *)
(***************************************************************************)
\* formatTime with the minutes taken of all the seconds (line 75 without
\* `% 3600`).
formatTime_minutesOfTotal(ms) ==
    LET totalSeconds == FloorDiv(ms, MS_PER_SECOND)
        hours == FloorDiv(totalSeconds, 3600)
        minutes == FloorDiv(totalSeconds, 60)
        seconds == JsRem(totalSeconds, 60)
    IN  <<PadStart(toString(hours), 2), PadStart(toString(minutes), 2),
          PadStart(toString(seconds), 2)>>

\* TimeFormatter.formatTime: the three fields, each padded to two characters
\* (the ':' that joins them is split off again by DisplayManager.update).
formatTime(ms) ==
    LET totalSeconds == FloorDiv(ms, MS_PER_SECOND)
        hours == FloorDiv(totalSeconds, 3600)
        minutes == FloorDiv(JsRem(totalSeconds, 3600), 60)
        seconds == JsRem(totalSeconds, 60)
    IN  <<PadStart(toString(hours), 2), PadStart(toString(minutes), 2),
          PadStart(toString(seconds), 2)>>

\* TimeFormatter.formatMilliseconds
formatMilliseconds(ms) == PadStart(toString(JsRem(ms, 1000)), 3)

\* What a display shows after DisplayManager.update(ms).
Shown(ms) ==
    LET formattedTime == formatTime(ms)
    IN  [hours |-> formattedTime[1], minutes |-> formattedTime[2],
         seconds |-> formattedTime[3], milliseconds |-> formatMilliseconds(ms)]

\* DisplayManager.update(ms) on the display of object self.
update(self, ms) ==
    [self EXCEPT !.displayManager = Shown(ms), !.log = Append(self.log, ms)]

\* A handler starts with an empty record of update calls.
Entered(self) == [self EXCEPT !.log = <<>>]

(***************************************************************************)
(* StopwatchLogic.                                                         *)
(***************************************************************************)
\* clearInterval(self.timer): the callback the handle names is removed, if it
\* is still registered.
clearInterval(self) ==
    IF self.timer = "live"
    THEN [self EXCEPT !.timer = "cleared", !.intervals = self.intervals - 1]
    ELSE self

\* self.timer = setInterval(...): one more callback is registered and the
\* handle names it; a callback the handle named before stays registered.
setInterval(self) ==
    [self EXCEPT !.timer = "live", !.intervals = self.intervals + 1]

\* start() without the test of isRunning.
StopwatchLogic_start_unguarded(self, t) ==
    setInterval([self EXCEPT !.isRunning = TRUE,
                             !.startTime = t - self.elapsedTime,
                             !.startPauseButton = "Pause"])

\* start() that anchors on Date.now() alone (line 194 without elapsedTime).
StopwatchLogic_start_fresh(self, t) ==
    IF self.isRunning THEN self
    ELSE setInterval([self EXCEPT !.isRunning = TRUE,
                                  !.startTime = t,
                                  !.startPauseButton = "Pause"])

StopwatchLogic_start(self, t) ==
    IF self.isRunning THEN self
    ELSE setInterval([self EXCEPT !.isRunning = TRUE,
                                  !.startTime = t - self.elapsedTime,
                                  !.startPauseButton = "Pause"])

\* The callback that adds the time since its last run, taken to be 1 (an
\* `elapsedTime += intervalMs`), where line 200 reads the clock.
StopwatchLogic_tick_accumulating(self, t) ==
    update([self EXCEPT !.elapsedTime = self.elapsedTime + 1], self.elapsedTime + 1)

\* The callback without the update of the display (line 201).
StopwatchLogic_tick_silent(self, t) ==
    [self EXCEPT !.elapsedTime = t - self.startTime]

\* The callback of the interval.
StopwatchLogic_tick(self, t) ==
    update([self EXCEPT !.elapsedTime = t - self.startTime], t - self.startTime)

\* pause() without clearInterval (line 210).
StopwatchLogic_pause_leaking(self) ==
    IF ~self.isRunning THEN self
    ELSE [self EXCEPT !.isRunning = FALSE, !.startPauseButton = "Start"]

StopwatchLogic_pause(self) ==
    IF ~self.isRunning THEN self
    ELSE [clearInterval([self EXCEPT !.isRunning = FALSE])
             EXCEPT !.startPauseButton = "Start"]

StopwatchLogic_clear(self) ==
    LET paused == StopwatchLogic_pause(self)
    IN  [update([paused EXCEPT !.elapsedTime = 0], 0)
            EXCEPT !.startPauseButton = "Start"]

StopwatchLogic_reset(self) == StopwatchLogic_clear(self)

StopwatchLogic_toggleStartPause(self, t) ==
    IF self.isRunning THEN StopwatchLogic_pause(self)
    ELSE StopwatchLogic_start(self, t)

\* The state after the constructor.
StopwatchLogic_new ==
    [timer |-> "null", elapsedTime |-> 0, startTime |-> 0, isRunning |-> FALSE,
     startPauseButton |-> "Start", displayManager |-> Shown(0),
     intervals |-> 0, log |-> <<>>]


(***************************************************************************)
(* CountdownInputManager.                                                  *)
(***************************************************************************)
\* /^\d$/.test(digit)
IsDigit(digit) == \E i \in 1..Len(DigitChars) : DigitChars[i] = digit

\* The string handleNumberInput parses: the total seconds of inputMs as a
\* decimal string padded to six characters, its last five characters, and
\* the digit appended.
newNumString(inputMs, digit) ==
    LET currentNumString == PadStart(toString(FloorDiv(inputMs, MS_PER_SECOND)), 6)
    IN  SliceLast(currentNumString, 5) \o <<digit>>

newSeconds(s) == ParseInt(SliceLast(s, 2))
newMinutes(s) == ParseInt(SliceBetween(s, 4, 2))
newHours(s) == ParseInt(SliceHead(s, 4))

\* The test of line 300: the parsed time is no time of day.
ExceedsLimit(s) == newHours(s) > 23 \/ newMinutes(s) > 59 \/ newSeconds(s) > 59

\* handleNumberInput without the test of line 300.
CountdownInputManager_handleNumberInput_unchecked(self, digit) ==
    IF ~IsDigit(digit) THEN self
    ELSE LET s == newNumString(self.inputMs, digit)
             ms == (newHours(s) * MS_PER_HOUR) + (newMinutes(s) * MS_PER_MINUTE)
                     + (newSeconds(s) * MS_PER_SECOND)
             clamped == IF ms > MAX_COUNTDOWN_MS THEN MAX_COUNTDOWN_MS ELSE ms
         IN  update([self EXCEPT !.inputMs = clamped], clamped)

\* handleNumberInput that sets the maximum where line 300 returns.
CountdownInputManager_handleNumberInput_clamping(self, digit) ==
    IF ~IsDigit(digit) THEN self
    ELSE LET s == newNumString(self.inputMs, digit)
             ms == (newHours(s) * MS_PER_HOUR) + (newMinutes(s) * MS_PER_MINUTE)
                     + (newSeconds(s) * MS_PER_SECOND)
             clamped == IF ms > MAX_COUNTDOWN_MS \/ ExceedsLimit(s)
                        THEN MAX_COUNTDOWN_MS ELSE ms
         IN  update([self EXCEPT !.inputMs = clamped], clamped)

\* handleNumberInput with neither the test of line 300 nor the clamp of
\* lines 308-311.
CountdownInputManager_handleNumberInput_unbounded(self, digit) ==
    IF ~IsDigit(digit) THEN self
    ELSE LET s == newNumString(self.inputMs, digit)
             ms == (newHours(s) * MS_PER_HOUR) + (newMinutes(s) * MS_PER_MINUTE)
                     + (newSeconds(s) * MS_PER_SECOND)
         IN  update([self EXCEPT !.inputMs = ms], ms)

CountdownInputManager_handleNumberInput(self, digit) ==
    IF ~IsDigit(digit) THEN self
    ELSE LET s == newNumString(self.inputMs, digit)
             ms == (newHours(s) * MS_PER_HOUR) + (newMinutes(s) * MS_PER_MINUTE)
                     + (newSeconds(s) * MS_PER_SECOND)
             clamped == IF ms > MAX_COUNTDOWN_MS THEN MAX_COUNTDOWN_MS ELSE ms
         IN  IF ExceedsLimit(s) THEN self
             ELSE update([self EXCEPT !.inputMs = clamped], clamped)

CountdownInputManager_clearInput(self) ==
    update([self EXCEPT !.inputMs = 0], 0)

CountdownInputManager_reset(self) == CountdownInputManager_clearInput(self)

\* The state after the constructor, which ends with displayManager.update(0).
CountdownInputManager_new ==
    update([inputMs |-> 0, displayManager |-> Shown(0), log |-> <<>>], 0)

(***************************************************************************)
(* CountdownLogic.                                                         *)
(***************************************************************************)
CountdownLogic_updateButtonState(self, state) ==
    [self EXCEPT !.startPauseContinueButton =
        IF state = "start" THEN "Start"
        ELSE IF state = "pause" THEN "Pause"
        ELSE IF state = "continue" THEN "Continue"
        ELSE ""]

\* setInitialTime that does not store initialTimeMs.
CountdownLogic_setInitialTime_remainingOnly(self, ms) ==
    CountdownLogic_updateButtonState(
        update([self EXCEPT !.remainingTime = ms], ms), "start")

CountdownLogic_setInitialTime(self, ms) ==
    CountdownLogic_updateButtonState(
        update([self EXCEPT !.initialTimeMs = ms, !.remainingTime = ms], ms),
        "start")

\* pause() without clearInterval (line 461).
CountdownLogic_pause_leaking(self) ==
    IF ~self.isRunning THEN self
    ELSE CountdownLogic_updateButtonState([self EXCEPT !.isRunning = FALSE],
                                          "continue")

CountdownLogic_pause(self) ==
    IF ~self.isRunning THEN self
    ELSE CountdownLogic_updateButtonState(
             clearInterval([self EXCEPT !.isRunning = FALSE]), "continue")

\* The callback with `remainingTime < 0` as the test of the end.
CountdownLogic_tick_strict(self, t) ==
    LET remaining == self.endTime - t
    IN  IF remaining < 0
        THEN CountdownLogic_updateButtonState(
                 update(CountdownLogic_pause([self EXCEPT !.remainingTime = 0]), 0),
                 "start")
        ELSE update([self EXCEPT !.remainingTime = remaining], remaining)

\* The callback without `this.remainingTime = 0` (line 444): the value past
\* the end is stored and shown as it was computed.
CountdownLogic_tick_unclamped(self, t) ==
    LET remaining == self.endTime - t
    IN  IF remaining <= 0
        THEN CountdownLogic_updateButtonState(
                 update(CountdownLogic_pause([self EXCEPT !.remainingTime = remaining]),
                        remaining),
                 "start")
        ELSE update([self EXCEPT !.remainingTime = remaining], remaining)

\* The callback of the interval.
CountdownLogic_tick(self, t) ==
    LET remaining == self.endTime - t
    IN  IF remaining <= 0
        THEN CountdownLogic_updateButtonState(
                 update(CountdownLogic_pause([self EXCEPT !.remainingTime = 0]), 0),
                 "start")
        ELSE update([self EXCEPT !.remainingTime = remaining], remaining)

\* start() without the test of remainingTime.
CountdownLogic_start_any(self, t) ==
    IF self.isRunning THEN self
    ELSE setInterval(CountdownLogic_updateButtonState(
             [self EXCEPT !.isRunning = TRUE,
                          !.endTime = t + self.remainingTime],
             "pause"))

CountdownLogic_start(self, t) ==
    IF self.isRunning \/ self.remainingTime <= 0 THEN self
    ELSE setInterval(CountdownLogic_updateButtonState(
             [self EXCEPT !.isRunning = TRUE,
                          !.endTime = t + self.remainingTime],
             "pause"))

\* continueCountdown() that starts again from initialTimeMs.
CountdownLogic_continueCountdown_restart(self, t) ==
    IF self.isRunning \/ self.remainingTime <= 0 THEN self
    ELSE CountdownLogic_start([self EXCEPT !.remainingTime = self.initialTimeMs], t)

CountdownLogic_continueCountdown(self, t) ==
    IF self.isRunning \/ self.remainingTime <= 0 THEN self
    ELSE CountdownLogic_start(self, t)

CountdownLogic_toggleStartPauseContinue(self, t) ==
    IF self.isRunning THEN CountdownLogic_pause(self)
    ELSE IF self.startPauseContinueButton = "Start" THEN CountdownLogic_start(self, t)
    ELSE CountdownLogic_continueCountdown(self, t)

\* clear() without the call of pause().
CountdownLogic_clear_running(self) ==
    CountdownLogic_updateButtonState(
        update([self EXCEPT !.remainingTime = self.initialTimeMs],
               self.initialTimeMs),
        "start")

CountdownLogic_clear(self) ==
    LET paused == CountdownLogic_pause(self)
    IN  CountdownLogic_updateButtonState(
            update([paused EXCEPT !.remainingTime = paused.initialTimeMs],
                   paused.initialTimeMs),
            "start")

\* reset() without the call of pause() (line 509).
CountdownLogic_reset_running(self) ==
    CountdownLogic_updateButtonState(
        update([self EXCEPT !.initialTimeMs = 0, !.remainingTime = 0], 0),
        "start")

CountdownLogic_reset(self) ==
    LET paused == CountdownLogic_pause(self)
    IN  CountdownLogic_updateButtonState(
            update([paused EXCEPT !.initialTimeMs = 0, !.remainingTime = 0], 0),
            "start")

\* The state after the constructor.
CountdownLogic_new ==
    [timer |-> "null", initialTimeMs |-> 0, remainingTime |-> 0, endTime |-> 0,
     isRunning |-> FALSE, startPauseContinueButton |-> "Start",
     displayManager |-> Shown(0), intervals |-> 0, log |-> <<>>]

(***************************************************************************)
(* AppRouter.                                                              *)
(***************************************************************************)
screens == {"selection-screen", "stopwatch-form", "countdown-input-form",
            "countdown-display-form"}

AppRouter_showScreen(self, screenId) ==
    IF screenId \notin screens THEN self
    ELSE [self EXCEPT !.currentScreenId = screenId]

AppRouter_new == [currentScreenId |-> "selection-screen"]


(***************************************************************************)
(* The state after DOMContentLoaded.                                       *)
(***************************************************************************)
Call(op, branch, args) == [op |-> op, branch |-> branch, args |-> args]

Init ==
    /\ now = 0
    /\ stopwatchLogic = StopwatchLogic_new
    /\ countdownInputManager = CountdownInputManager_new
    /\ countdownLogic = CountdownLogic_new
    /\ appRouter = AppRouter_new
    /\ lastCall = Call("DOMContentLoaded", "", <<>>)
    /\ swRun = [since |-> 0, total |-> 0, base |-> 0]
    /\ cdRun = [phase |-> "none", since |-> 0, base |-> 0]
    /\ keyed = 0

(***************************************************************************)
(* The clock.                                                              *)
(***************************************************************************)
Advance ==
    /\ \E d \in 1..MaxStep : now + d <= MaxNow /\ now' = now + d
    /\ lastCall' = Call("advance", "", <<>>)
    /\ UNCHANGED <<stopwatchLogic, countdownInputManager, countdownLogic,
                   appRouter, swRun, cdRun, keyed>>

(***************************************************************************)
(* The stopwatch: its methods called, its button clicked, its interval     *)
(* firing.                                                                 *)
(***************************************************************************)
\* swRun after a handler took the stopwatch from pre to post.
SwRunAfter(pre, post, cleared) ==
    [since |-> IF ~post.isRunning THEN 0
               ELSE IF ~pre.isRunning THEN now ELSE swRun.since,
     total |-> IF cleared THEN 0
               ELSE IF pre.isRunning /\ ~post.isRunning
                    THEN swRun.total + (now - swRun.since)
                    ELSE swRun.total,
     base |-> IF ~post.isRunning THEN 0
              ELSE IF ~pre.isRunning THEN pre.elapsedTime ELSE swRun.base]

StopwatchStep(op, branch, post, cleared) ==
    /\ stopwatchLogic' = post
    /\ lastCall' = Call(op, branch, <<>>)
    /\ swRun' = SwRunAfter(stopwatchLogic, post, cleared)
    /\ UNCHANGED <<now, countdownInputManager, countdownLogic, appRouter, cdRun, keyed>>

StartStopwatch ==
    StopwatchStep("StopwatchLogic.start",
                  IF stopwatchLogic.isRunning THEN "running" ELSE "started",
                  StopwatchLogic_start(Entered(stopwatchLogic), now), FALSE)

PauseStopwatch ==
    StopwatchStep("StopwatchLogic.pause",
                  IF stopwatchLogic.isRunning THEN "paused" ELSE "stopped",
                  StopwatchLogic_pause(Entered(stopwatchLogic)), FALSE)

ToggleStopwatch ==
    StopwatchStep("StopwatchLogic.toggleStartPause",
                  IF stopwatchLogic.isRunning THEN "paused" ELSE "started",
                  StopwatchLogic_toggleStartPause(Entered(stopwatchLogic), now), FALSE)

ClearStopwatch ==
    StopwatchStep("StopwatchLogic.clear",
                  IF stopwatchLogic.isRunning THEN "running" ELSE "stopped",
                  StopwatchLogic_clear(Entered(stopwatchLogic)), TRUE)

StopwatchTick ==
    /\ stopwatchLogic.intervals > 0
    /\ StopwatchStep("StopwatchLogic.tick", "",
                     StopwatchLogic_tick(Entered(stopwatchLogic), now), FALSE)


(***************************************************************************)
(* The countdown: its methods called, its button clicked, its interval     *)
(* firing.                                                                 *)
(***************************************************************************)
CdRunNone == [phase |-> "none", since |-> 0, base |-> 0]

\* cdRun after setInitialTime on the countdown pre.
CdRunSet(pre) ==
    IF pre.isRunning THEN CdRunNone ELSE [phase |-> "set", since |-> 0, base |-> 0]

\* cdRun after start() on the countdown pre.
CdRunStart(pre) ==
    IF cdRun.phase = "set" /\ ~pre.isRunning /\ pre.remainingTime > 0
    THEN [phase |-> "started", since |-> now, base |-> 0]
    ELSE CdRunNone

\* cdRun after continueCountdown() on the countdown pre.
CdRunContinue(pre) ==
    IF ~pre.isRunning /\ pre.remainingTime > 0
    THEN [phase |-> "continued", since |-> now, base |-> pre.remainingTime]
    ELSE CdRunNone

\* cdRun after a handler that leaves the countdown as post: a run that began
\* with continueCountdown() is recorded until the countdown stops running.
CdRunKept(post, run) ==
    IF cdRun.phase # "continued" THEN run
    ELSE IF post.isRunning THEN cdRun
    ELSE IF run.phase = "continued" THEN CdRunNone
    ELSE run

CountdownStep(op, branch, args, post, run) ==
    /\ countdownLogic' = post
    /\ lastCall' = Call(op, branch, args)
    /\ cdRun' = CdRunKept(post, run)
    /\ UNCHANGED <<now, stopwatchLogic, countdownInputManager, appRouter, swRun, keyed>>

\* The values setInitialTime is called with.
SetInitialInputs == (1..MaxInitial) \cup {-1, 0, MAX_COUNTDOWN_MS, MAX_COUNTDOWN_MS + 1}

SetInitialTime(ms) ==
    CountdownStep("CountdownLogic.setInitialTime",
                  IF countdownLogic.isRunning THEN "running" ELSE "stopped",
                  <<ms>>,
                  CountdownLogic_setInitialTime(Entered(countdownLogic), ms),
                  CdRunSet(countdownLogic))

\* The branch start() and continueCountdown() take.
StartBranch(self) ==
    IF self.isRunning THEN "running"
    ELSE IF self.remainingTime <= 0 THEN "zero"
    ELSE "started"

StartCountdown ==
    CountdownStep("CountdownLogic.start", StartBranch(countdownLogic), <<>>,
                  CountdownLogic_start(Entered(countdownLogic), now),
                  CdRunStart(countdownLogic))

PauseCountdown ==
    CountdownStep("CountdownLogic.pause",
                  IF countdownLogic.isRunning THEN "paused" ELSE "stopped", <<>>,
                  CountdownLogic_pause(Entered(countdownLogic)), CdRunNone)

ContinueCountdown ==
    CountdownStep("CountdownLogic.continueCountdown", StartBranch(countdownLogic),
                  <<>>,
                  CountdownLogic_continueCountdown(Entered(countdownLogic), now),
                  CdRunContinue(countdownLogic))

ToggleCountdown ==
    CountdownStep("CountdownLogic.toggleStartPauseContinue",
                  IF countdownLogic.isRunning THEN "pause"
                  ELSE IF countdownLogic.startPauseContinueButton = "Start"
                       THEN "start" ELSE "continue",
                  <<>>,
                  CountdownLogic_toggleStartPauseContinue(Entered(countdownLogic), now),
                  IF countdownLogic.isRunning THEN CdRunNone
                  ELSE IF countdownLogic.startPauseContinueButton = "Start"
                       THEN CdRunStart(countdownLogic)
                       ELSE CdRunContinue(countdownLogic))

ClearCountdown ==
    CountdownStep("CountdownLogic.clear",
                  IF countdownLogic.isRunning THEN "running" ELSE "stopped", <<>>,
                  CountdownLogic_clear(Entered(countdownLogic)), CdRunNone)

ResetCountdown ==
    CountdownStep("CountdownLogic.reset",
                  IF countdownLogic.isRunning THEN "running" ELSE "stopped", <<>>,
                  CountdownLogic_reset(Entered(countdownLogic)), CdRunNone)

CountdownTick ==
    /\ countdownLogic.intervals > 0
    /\ CountdownStep("CountdownLogic.tick",
                     IF countdownLogic.endTime - now <= 0 THEN "finished" ELSE "running",
                     <<>>,
                     CountdownLogic_tick(Entered(countdownLogic), now), cdRun)

(***************************************************************************)
(* The keypad of the countdown.                                            *)
(***************************************************************************)
\* The texts of the keypad buttons pressed: some digits, and a text that is
\* no digit.
Keypad == {"1", "2", "3", "4", "5", "6", "#"}

\* The keys pressed in the wired application.
FewKeys == {"1", "6"}

\* The keys pressed where the input is brought close to 24 hours.
HighKeys == {"0", "4", "9"}

TargetKeys == <<"1", "2", "3", "4", "5", "6">>

\* keyed after a press of digit.
KeyedAfter(digit) ==
    IF keyed >= 0 /\ keyed < Len(TargetKeys) /\ digit = TargetKeys[keyed + 1]
    THEN keyed + 1 ELSE -1

\* A press that also hands the new input to the countdown.
PressKey_coupled(digit) ==
    /\ countdownInputManager' =
           CountdownInputManager_handleNumberInput(Entered(countdownInputManager), digit)
    /\ countdownLogic' =
           CountdownLogic_setInitialTime(Entered(countdownLogic),
                                         countdownInputManager'.inputMs)
    /\ lastCall' = Call("CountdownInputManager.handleNumberInput",
                        IF ~IsDigit(digit) THEN "invalid"
                        ELSE IF ExceedsLimit(newNumString(countdownInputManager.inputMs, digit))
                             THEN "rejected" ELSE "accepted",
                        <<digit, countdownInputManager.inputMs>>)
    /\ keyed' = KeyedAfter(digit)
    /\ UNCHANGED <<now, stopwatchLogic, appRouter, swRun, cdRun>>

PressKey(digit) ==
    /\ countdownInputManager' =
           CountdownInputManager_handleNumberInput(Entered(countdownInputManager), digit)
    /\ lastCall' = Call("CountdownInputManager.handleNumberInput",
                        IF ~IsDigit(digit) THEN "invalid"
                        ELSE IF ExceedsLimit(newNumString(countdownInputManager.inputMs, digit))
                             THEN "rejected" ELSE "accepted",
                        <<digit, countdownInputManager.inputMs>>)
    /\ keyed' = KeyedAfter(digit)
    /\ UNCHANGED <<now, stopwatchLogic, countdownLogic, appRouter, swRun, cdRun>>

ClickClearInput ==
    /\ countdownInputManager' = CountdownInputManager_clearInput(Entered(countdownInputManager))
    /\ lastCall' = Call("CountdownInputManager.clearInput", "", <<>>)
    /\ keyed' = 0
    /\ UNCHANGED <<now, stopwatchLogic, countdownLogic, appRouter, swRun, cdRun>>

\* The callback registered with onSet (lines 683-691), called with setMs.
onSetCallback(setMs) ==
    /\ countdownLogic' = CountdownLogic_setInitialTime(Entered(countdownLogic), setMs)
    /\ appRouter' = AppRouter_showScreen(appRouter, "countdown-display-form")
    /\ cdRun' = CdRunSet(countdownLogic)

\* triggerSet without the test of inputMs (line 346).
ClickSet_always ==
    /\ onSetCallback(countdownInputManager.inputMs)
    /\ lastCall' = Call("CountdownInputManager.triggerSet",
                        IF countdownInputManager.inputMs > 0 THEN "set" ELSE "empty",
                        <<>>)
    /\ UNCHANGED <<now, stopwatchLogic, countdownInputManager, swRun, keyed>>

\* CountdownInputManager.triggerSet: a click on Set.
ClickSet ==
    /\ IF countdownInputManager.inputMs > 0
       THEN onSetCallback(countdownInputManager.inputMs)
       ELSE UNCHANGED <<countdownLogic, appRouter, cdRun>>
    /\ lastCall' = Call("CountdownInputManager.triggerSet",
                        IF countdownInputManager.inputMs > 0 THEN "set" ELSE "empty",
                        <<>>)
    /\ UNCHANGED <<now, stopwatchLogic, countdownInputManager, swRun, keyed>>

(***************************************************************************)
(* Navigation (lines 671-703).                                             *)
(***************************************************************************)
ClickStopwatchOption ==
    /\ stopwatchLogic' = StopwatchLogic_reset(Entered(stopwatchLogic))
    /\ swRun' = SwRunAfter(stopwatchLogic, stopwatchLogic', TRUE)
    /\ appRouter' = AppRouter_showScreen(appRouter, "stopwatch-form")
    /\ lastCall' = Call("stopwatch-option", "", <<>>)
    /\ UNCHANGED <<now, countdownInputManager, countdownLogic, cdRun, keyed>>

ClickCountdownOption ==
    /\ countdownInputManager' = CountdownInputManager_reset(Entered(countdownInputManager))
    /\ appRouter' = AppRouter_showScreen(appRouter, "countdown-input-form")
    /\ lastCall' = Call("countdown-option", "", <<>>)
    /\ keyed' = 0
    /\ UNCHANGED <<now, stopwatchLogic, countdownLogic, swRun, cdRun>>

\* The back button with a screenChange listener that does not reset the
\* stopwatch (line 698 missing).
ClickBack_keepStopwatch ==
    /\ appRouter' = AppRouter_showScreen(appRouter, "selection-screen")
    /\ countdownLogic' = CountdownLogic_reset(Entered(countdownLogic))
    /\ cdRun' = CdRunNone
    /\ countdownInputManager' = CountdownInputManager_reset(Entered(countdownInputManager))
    /\ keyed' = 0
    /\ lastCall' = Call("back-button", "", <<>>)
    /\ UNCHANGED <<now, stopwatchLogic, swRun>>

\* The back button with a screenChange listener that does not reset the
\* input (line 700 missing).
ClickBack_keepInput ==
    /\ appRouter' = AppRouter_showScreen(appRouter, "selection-screen")
    /\ stopwatchLogic' = StopwatchLogic_reset(Entered(stopwatchLogic))
    /\ swRun' = SwRunAfter(stopwatchLogic, stopwatchLogic', TRUE)
    /\ countdownLogic' = CountdownLogic_reset(Entered(countdownLogic))
    /\ cdRun' = CdRunNone
    /\ lastCall' = Call("back-button", "", <<>>)
    /\ UNCHANGED <<now, countdownInputManager, keyed>>

\* A click on a back button whose target is the selection screen, and the
\* screenChange listener it triggers.
ClickBack ==
    /\ appRouter' = AppRouter_showScreen(appRouter, "selection-screen")
    /\ stopwatchLogic' = StopwatchLogic_reset(Entered(stopwatchLogic))
    /\ swRun' = SwRunAfter(stopwatchLogic, stopwatchLogic', TRUE)
    /\ countdownLogic' = CountdownLogic_reset(Entered(countdownLogic))
    /\ cdRun' = CdRunNone
    /\ countdownInputManager' = CountdownInputManager_reset(Entered(countdownInputManager))
    /\ keyed' = 0
    /\ lastCall' = Call("back-button", "", <<>>)
    /\ UNCHANGED now

(***************************************************************************)
(* The specifications.                                                     *)
(***************************************************************************)
StopwatchCalls ==
    \/ StartStopwatch
    \/ PauseStopwatch
    \/ ToggleStopwatch
    \/ ClearStopwatch
    \/ StopwatchTick

CountdownCalls ==
    \/ StartCountdown
    \/ PauseCountdown
    \/ ContinueCountdown
    \/ ToggleCountdown
    \/ ClearCountdown
    \/ ResetCountdown
    \/ CountdownTick

StopwatchNext == Advance \/ StopwatchCalls

CountdownNext ==
    \/ Advance
    \/ \E ms \in SetInitialInputs : SetInitialTime(ms)
    \/ CountdownCalls

EnginesNext ==
    \/ Advance
    \/ StopwatchCalls
    \/ SetInitialTime(MaxInitial)
    \/ CountdownCalls

InputNext ==
    \/ \E digit \in Keypad : PressKey(digit)
    \/ ClickClearInput

Showing(screenId) == appRouter.currentScreenId = screenId

\* The events of the wired application: a click reaches a control of the
\* screen that is shown; the clock and the intervals run on every screen.
Next ==
    \/ Advance
    \/ StopwatchTick
    \/ CountdownTick
    \/ Showing("selection-screen") /\ ClickStopwatchOption
    \/ Showing("selection-screen") /\ ClickCountdownOption
    \/ Showing("stopwatch-form") /\ ToggleStopwatch
    \/ Showing("stopwatch-form") /\ ClearStopwatch
    \/ Showing("countdown-input-form") /\ \E digit \in FewKeys : PressKey(digit)
    \/ Showing("countdown-input-form") /\ ClickClearInput
    \/ Showing("countdown-input-form") /\ ClickSet
    \/ Showing("countdown-display-form") /\ ToggleCountdown
    \/ Showing("countdown-display-form") /\ ClearCountdown
    \/ ~Showing("selection-screen") /\ ClickBack

\* The wired application.
Spec == Init /\ [][Next]_vars

\* The events of the wired application that configure the countdown: the
\* keypad, Clear and Set of the input form, and the navigation to and from it.
ConfigureNext ==
    \/ Showing("selection-screen") /\ ClickCountdownOption
    \/ Showing("countdown-input-form") /\ \E digit \in HighKeys : PressKey(digit)
    \/ Showing("countdown-input-form") /\ ClickClearInput
    \/ Showing("countdown-input-form") /\ ClickSet
    \/ ~Showing("selection-screen") /\ ClickBack

ConfigureSpec == Init /\ [][ConfigureNext]_vars

\* The wired application, with setInitialTime also called directly on the
\* countdown that is shown, with a duration the clock can pass.
DisplaysNext ==
    \/ Next
    \/ Showing("countdown-display-form") /\ SetInitialTime(MaxInitial)

DisplaysSpec == Init /\ [][DisplaysNext]_vars

\* The key pressed beside a countdown that is set.
OneKey == {"1"}

\* The input and the countdown, their handlers called in any order, whatever
\* screen is shown.
DecoupledNext ==
    \/ Advance
    \/ CountdownTick
    \/ \E digit \in OneKey : PressKey(digit)
    \/ ClickClearInput
    \/ ClickSet
    \/ ToggleCountdown
    \/ ResetCountdown

DecoupledSpec == Init /\ [][DecoupledNext]_vars

\* The values the formatter is applied to: every combination of some hours,
\* minutes, seconds and milliseconds, with hours of one, two and three digits.
FormatInputs ==
    {h * MS_PER_HOUR + mi * MS_PER_MINUTE + s * MS_PER_SECOND + k :
        h \in {0, 1, 9, 10, 23, 24, 99, 100},
        mi \in {0, 10, 59},
        s \in {0, 9, 59},
        k \in {0, 9, 10, 99, 999}}

\* The formatter applied to a value: setInitialTime(ms) hands ms, as it is,
\* to DisplayManager.update.
FormatterNext == \E ms \in FormatInputs : SetInitialTime(ms)

FormatterSpec == Init /\ [][FormatterNext]_vars

\* The stopwatch alone, its methods called in any order.
StopwatchSpec == Init /\ [][StopwatchNext]_vars

\* The countdown alone, its methods called in any order.
CountdownSpec == Init /\ [][CountdownNext]_vars

\* Both engines, their methods called in any order.
EnginesSpec == Init /\ [][EnginesNext]_vars

\* The keypad alone.
InputSpec == Init /\ [][InputNext]_vars


(***************************************************************************)
(* The claims.                                                             *)
(***************************************************************************)
InRange(ms) == 0 < ms /\ ms <= MAX_COUNTDOWN_MS

\* C1: after any pause() of the stopwatch that stops it, elapsedTime equals
\* the sum of the lengths of all Running intervals since the last clear, each
\* from the instant of its start() to the instant of its pause().
C1_ElapsedIsRunningTime ==
    (/\ lastCall.op \in {"StopwatchLogic.pause", "StopwatchLogic.toggleStartPause"}
     /\ lastCall.branch = "paused")
        => stopwatchLogic.elapsedTime = swRun.total

\* C2: the countdown is set to ms, 0 < ms <= 86399999, while it is not
\* running, and started; the callback that fires when the clock has advanced
\* by exactly ms since the start leaves it not running with remainingTime = 0,
\* its one update of the display is update(0), and no interval callback stays
\* registered, so that no later callback runs.
C2_FinishesAtDeadline ==
    (/\ lastCall.op = "CountdownLogic.tick"
     /\ cdRun.phase = "started"
     /\ InRange(countdownLogic.initialTimeMs)
     /\ now = cdRun.since + countdownLogic.initialTimeMs)
        => /\ ~countdownLogic.isRunning
           /\ countdownLogic.remainingTime = 0
           /\ countdownLogic.log = <<0>>
           /\ countdownLogic.displayManager = Shown(0)
           /\ countdownLogic.timer # "live"
           /\ countdownLogic.intervals = 0

C2_Witness ==
    /\ lastCall.op = "CountdownLogic.tick"
    /\ cdRun.phase = "started"
    /\ InRange(countdownLogic.initialTimeMs)
    /\ cdRun.since > 0
    /\ now = cdRun.since + countdownLogic.initialTimeMs
    /\ countdownLogic.remainingTime = 0

\* C3: after clear() the countdown has remainingTime = initialTimeMs and the
\* stopwatch has elapsedTime = 0, and the cleared engine is not running and
\* has no interval callback registered.
C3_ClearRestores ==
    /\ lastCall.op = "CountdownLogic.clear"
           => /\ countdownLogic.remainingTime = countdownLogic.initialTimeMs
              /\ ~countdownLogic.isRunning
              /\ countdownLogic.timer # "live"
              /\ countdownLogic.intervals = 0
    /\ lastCall.op = "StopwatchLogic.clear"
           => /\ stopwatchLogic.elapsedTime = 0
              /\ ~stopwatchLogic.isRunning
              /\ stopwatchLogic.timer # "live"
              /\ stopwatchLogic.intervals = 0

\* The stopwatch was cleared while it ran, after the countdown had run and
\* been cleared.
C3_Witness ==
    /\ lastCall.op = "StopwatchLogic.clear"
    /\ lastCall.branch = "running"
    /\ stopwatchLogic.startTime > 0
    /\ countdownLogic.timer = "cleared"
    /\ countdownLogic.startPauseContinueButton = "Start"
    /\ countdownLogic.initialTimeMs > 0
    /\ countdownLogic.remainingTime = countdownLogic.initialTimeMs

\* C4: the keys 1,2,3,4,5,6 pressed in this order on an empty input give
\* inputMs = (12*3600 + 34*60 + 56)*1000.
C4_KeysReadAsHHMMSS ==
    keyed = 6 => countdownInputManager.inputMs = (12 * 3600 + 34 * 60 + 56) * 1000

\* C5: start() on an engine that is running changes nothing of it: startTime
\* or endTime, elapsedTime or remainingTime, isRunning, the handle and the
\* number of registered interval callbacks stay as they were, and the display
\* is not updated.
C5_StartWhileRunning ==
    [][/\ (lastCall'.op = "StopwatchLogic.start" /\ stopwatchLogic.isRunning)
           => stopwatchLogic' = Entered(stopwatchLogic)
       /\ (lastCall'.op = "CountdownLogic.start" /\ countdownLogic.isRunning)
           => countdownLogic' = Entered(countdownLogic)]_vars

\* start() was called on the running countdown, the stopwatch running too.
C5_Witness ==
    /\ lastCall.op = "CountdownLogic.start"
    /\ lastCall.branch = "running"
    /\ countdownLogic.isRunning
    /\ countdownLogic.intervals = 1
    /\ countdownLogic.endTime < now + countdownLogic.initialTimeMs
    /\ stopwatchLogic.isRunning
    /\ stopwatchLogic.intervals = 1


\* C6: setInitialTime(ms) is accepted only for 0 < ms <= 86399999: then
\* initialTimeMs = remainingTime = ms; a call with any other ms leaves
\* initialTimeMs, remainingTime and isRunning as they were.
C6_SetInitialValidates ==
    [][lastCall'.op = "CountdownLogic.setInitialTime"
         => IF InRange(lastCall'.args[1])
            THEN /\ countdownLogic'.initialTimeMs = lastCall'.args[1]
                 /\ countdownLogic'.remainingTime = lastCall'.args[1]
            ELSE /\ countdownLogic'.initialTimeMs = countdownLogic.initialTimeMs
                 /\ countdownLogic'.remainingTime = countdownLogic.remainingTime
                 /\ countdownLogic'.isRunning = countdownLogic.isRunning]_vars

\* C7: inputMs is always a whole number of seconds between 0 and 86399999 ms
\* whose hours are at most 23, minutes at most 59 and seconds at most 59.
C7_InputIsTimeOfDay ==
    LET ms == countdownInputManager.inputMs
        totalSeconds == ms \div MS_PER_SECOND
    IN  /\ ms % MS_PER_SECOND = 0
        /\ 0 <= ms /\ ms <= MAX_COUNTDOWN_MS
        /\ totalSeconds \div 3600 <= 23
        /\ (totalSeconds % 3600) \div 60 <= 59
        /\ totalSeconds % 60 <= 59

\* A press was accepted that brought the input to 23 hours or more.
C7_Witness ==
    /\ lastCall.op = "CountdownInputManager.handleNumberInput"
    /\ lastCall.branch = "accepted"
    /\ countdownInputManager.inputMs >= 23 * MS_PER_HOUR

\* C8: a press of a digit whose shifted string reads as hours > 23, minutes
\* > 59 or seconds > 59 leaves inputMs as it was before the press, and the
\* display is not updated.  (lastCall.args holds the key pressed and inputMs
\* before the press.)
C8_RejectedPressKeepsInput ==
    (/\ lastCall.op = "CountdownInputManager.handleNumberInput"
     /\ IsDigit(lastCall.args[1])
     /\ LET s == newNumString(lastCall.args[2], lastCall.args[1])
        IN  newHours(s) > 23 \/ newMinutes(s) > 59 \/ newSeconds(s) > 59)
        => /\ countdownInputManager.inputMs = lastCall.args[2]
           /\ countdownInputManager.displayManager = Shown(lastCall.args[2])
           /\ countdownInputManager.log = <<>>

\* A press was rejected on an input that is not empty.
C8_Witness ==
    /\ lastCall.op = "CountdownInputManager.handleNumberInput"
    /\ lastCall.branch = "rejected"
    /\ countdownInputManager.inputMs > 0
    /\ countdownInputManager.log = <<>>

\* C9: a click on Set with inputMs = v > 0 calls setInitialTime(v), so that
\* initialTimeMs = remainingTime = v, and a clear() of the countdown right
\* after it leaves remainingTime = initialTimeMs = v.
C9_SetThenClear ==
    [][/\ (/\ lastCall'.op = "CountdownInputManager.triggerSet"
           /\ countdownInputManager.inputMs > 0)
           => /\ countdownLogic'.initialTimeMs = countdownInputManager.inputMs
              /\ countdownLogic'.remainingTime = countdownInputManager.inputMs
              /\ countdownLogic'.log = <<countdownInputManager.inputMs>>
       /\ (/\ lastCall.op = "CountdownInputManager.triggerSet"
           /\ lastCall.branch = "set"
           /\ lastCall'.op = "CountdownLogic.clear")
           => /\ countdownLogic'.initialTimeMs = countdownInputManager.inputMs
              /\ countdownLogic'.remainingTime = countdownInputManager.inputMs]_vars

\* The countdown was cleared after a Set of a value above one minute, and was
\* not started since the Set.
C9_Witness ==
    /\ lastCall.op = "CountdownLogic.clear"
    /\ cdRun.phase = "none"
    /\ countdownLogic.timer = "null"
    /\ countdownInputManager.inputMs > MS_PER_MINUTE
    /\ countdownLogic.remainingTime = countdownInputManager.inputMs
    /\ countdownLogic.initialTimeMs = countdownInputManager.inputMs

\* C10: setInitialTime(ms) called while the countdown is running leaves it not
\* running, with no interval callback registered and remainingTime = ms.
C10_SetInitialStops ==
    (/\ lastCall.op = "CountdownLogic.setInitialTime"
     /\ lastCall.branch = "running")
        => /\ ~countdownLogic.isRunning
           /\ countdownLogic.intervals = 0
           /\ countdownLogic.remainingTime = lastCall.args[1]

\* C11: after a pause() that stops the running countdown, remainingTime is
\* endTime - now of the instant of the pause, and 0 when that is negative.
C11_PauseRecomputes ==
    (\/ (lastCall.op = "CountdownLogic.pause" /\ lastCall.branch = "paused")
     \/ (lastCall.op = "CountdownLogic.toggleStartPauseContinue"
            /\ lastCall.branch = "pause"))
        => countdownLogic.remainingTime =
               IF countdownLogic.endTime - now < 0 THEN 0
               ELSE countdownLogic.endTime - now

\* C12: the interval callback runs only on a running countdown; it never
\* stores or shows a negative value; the callback that computes
\* endTime - now <= 0 stores 0, shows 0 with its one update of the display,
\* and leaves the countdown not running with no interval callback registered
\* (so that no later callback shows 0 again); a callback that computes a
\* positive value shows that value.
C12_TickClampsAtZero ==
    [][lastCall'.op = "CountdownLogic.tick"
         => /\ countdownLogic.isRunning
            /\ countdownLogic'.remainingTime >= 0
            /\ \A i \in 1..Len(countdownLogic'.log) : countdownLogic'.log[i] >= 0
            /\ IF countdownLogic.endTime - now <= 0
               THEN /\ countdownLogic'.remainingTime = 0
                    /\ countdownLogic'.log = <<0>>
                    /\ countdownLogic'.displayManager = Shown(0)
                    /\ ~countdownLogic'.isRunning
                    /\ countdownLogic'.timer # "live"
                    /\ countdownLogic'.intervals = 0
               ELSE countdownLogic'.log = <<countdownLogic.endTime - now>>]_vars

\* The callback fired after the clock had passed endTime.
C12_Witness ==
    /\ lastCall.op = "CountdownLogic.tick"
    /\ lastCall.branch = "finished"
    /\ countdownLogic.endTime < now
    /\ countdownLogic.remainingTime = 0
    /\ countdownLogic.log = <<0>>
    /\ ~countdownLogic.isRunning

\* C13: start(), continueCountdown() and a click on the button, on a
\* countdown that is not running and has remainingTime = 0, change nothing:
\* the countdown stays not running, no interval callback is registered,
\* remainingTime stays 0 and the display is not updated.
C13_StartAtZeroIsNoOp ==
    [][(/\ lastCall'.op \in {"CountdownLogic.start",
                             "CountdownLogic.continueCountdown",
                             "CountdownLogic.toggleStartPauseContinue"}
        /\ countdownLogic.remainingTime = 0
        /\ ~countdownLogic.isRunning)
         => /\ countdownLogic' = Entered(countdownLogic)
            /\ ~countdownLogic'.isRunning
            /\ countdownLogic'.intervals = 0
            /\ countdownLogic'.timer # "live"
            /\ countdownLogic'.remainingTime = 0]_vars

\* continueCountdown() was called on a countdown that had run to its end.
C13_Witness ==
    /\ lastCall.op = "CountdownLogic.continueCountdown"
    /\ lastCall.branch = "zero"
    /\ countdownLogic.timer = "cleared"
    /\ countdownLogic.initialTimeMs > 0
    /\ countdownLogic.remainingTime = 0
    /\ ~countdownLogic.isRunning

\* C14: a click on Set while inputMs = 0 does not call the callback of onSet:
\* the countdown (initialTimeMs, remainingTime, its display and the record of
\* its updates), the screen shown and the input stay as they were.
C14_SetOnEmptyIsNoOp ==
    [][(/\ lastCall'.op = "CountdownInputManager.triggerSet"
        /\ countdownInputManager.inputMs = 0)
         => /\ countdownLogic' = countdownLogic
            /\ appRouter' = appRouter
            /\ countdownInputManager' = countdownInputManager]_vars

\* Set was clicked on the input form with an empty input, after the clock
\* had advanced.
C14_Witness ==
    /\ lastCall.op = "CountdownInputManager.triggerSet"
    /\ lastCall.branch = "empty"
    /\ countdownInputManager.inputMs = 0
    /\ appRouter.currentScreenId = "countdown-input-form"
    /\ countdownLogic.initialTimeMs = 0
    /\ now > 0

\* C15: in the wired application inputMs never exceeds 86399999, a click on
\* Set that calls setInitialTime passes a value ms with 0 < ms <= 86399999,
\* and initialTimeMs, which holds the value last passed (0 after a reset), is
\* 0 or in that range.
C15_SetValuesInRange ==
    /\ 0 <= countdownInputManager.inputMs
    /\ countdownInputManager.inputMs <= MAX_COUNTDOWN_MS
    /\ (/\ lastCall.op = "CountdownInputManager.triggerSet"
        /\ lastCall.branch = "set")
           => /\ countdownLogic.log = <<countdownLogic.initialTimeMs>>
              /\ InRange(countdownLogic.initialTimeMs)
    /\ countdownLogic.initialTimeMs # 0 => InRange(countdownLogic.initialTimeMs)

\* Set was clicked with an input of more than 23 hours.
C15_Witness ==
    /\ lastCall.op = "CountdownInputManager.triggerSet"
    /\ lastCall.branch = "set"
    /\ countdownLogic.initialTimeMs > 23 * MS_PER_HOUR
    /\ countdownLogic.initialTimeMs = countdownInputManager.inputMs
    /\ appRouter.currentScreenId = "countdown-display-form"

\* The last element of the record of updates is value, when the record is
\* not empty.
LastShown(self, value) ==
    self.log # <<>> /\ self.log[Len(self.log)] = value

\* C16: after every step the display of the stopwatch shows elapsedTime, the
\* display of the countdown shows remainingTime and the display of the input
\* shows inputMs; and a step that changes one of these values calls update
\* with the new value last.
C16_DisplaysShowValues ==
    [][/\ stopwatchLogic'.displayManager = Shown(stopwatchLogic'.elapsedTime)
       /\ countdownLogic'.displayManager = Shown(countdownLogic'.remainingTime)
       /\ countdownInputManager'.displayManager = Shown(countdownInputManager'.inputMs)
       /\ stopwatchLogic'.elapsedTime # stopwatchLogic.elapsedTime
            => LastShown(stopwatchLogic', stopwatchLogic'.elapsedTime)
       /\ countdownLogic'.remainingTime # countdownLogic.remainingTime
            => LastShown(countdownLogic', countdownLogic'.remainingTime)
       /\ countdownInputManager'.inputMs # countdownInputManager.inputMs
            => LastShown(countdownInputManager', countdownInputManager'.inputMs)]_vars

\* The countdown ran to its end while the input held the value that was set.
C16_Witness ==
    /\ lastCall.op = "CountdownLogic.tick"
    /\ lastCall.branch = "finished"
    /\ countdownLogic.remainingTime = 0
    /\ countdownLogic.displayManager = Shown(0)
    /\ countdownLogic.initialTimeMs > 0
    /\ countdownInputManager.inputMs > 0
    /\ countdownInputManager.displayManager = Shown(countdownInputManager.inputMs)

\* C17: the button of the countdown reads 'Pause' exactly when the countdown
\* is running, and reads 'Start' after every clear(), reset() and
\* setInitialTime() and after the callback that ends the countdown.
C17_ButtonTracksRunning ==
    /\ (countdownLogic.startPauseContinueButton = "Pause") <=> countdownLogic.isRunning
    /\ (\/ lastCall.op \in {"CountdownLogic.clear", "CountdownLogic.reset",
                            "CountdownLogic.setInitialTime"}
        \/ (lastCall.op = "CountdownLogic.tick" /\ countdownLogic.remainingTime = 0))
           => countdownLogic.startPauseContinueButton = "Start"

\* C18: each engine has one interval callback registered while it is running
\* and none while it is not, and its handle names the registered callback.
C18_OneIntervalWhileRunning ==
    /\ stopwatchLogic.intervals = IF stopwatchLogic.isRunning THEN 1 ELSE 0
    /\ countdownLogic.intervals = IF countdownLogic.isRunning THEN 1 ELSE 0
    /\ (stopwatchLogic.timer = "live") <=> stopwatchLogic.isRunning
    /\ (countdownLogic.timer = "live") <=> countdownLogic.isRunning

\* The stopwatch runs again after a pause, and the countdown was paused
\* after start() was called on it while it ran.
C18_Witness ==
    /\ stopwatchLogic.isRunning
    /\ stopwatchLogic.intervals = 1
    /\ stopwatchLogic.startTime > 0
    /\ stopwatchLogic.elapsedTime > 0
    /\ lastCall.op = "CountdownLogic.pause"
    /\ lastCall.branch = "paused"
    /\ countdownLogic.intervals = 0
    /\ countdownLogic.timer = "cleared"

\* C19: the stopwatch was started at instant s = swRun.since with
\* elapsedTime = e = swRun.base; every interval callback that fires at an
\* instant t before the next pause or clear sets elapsedTime to e + (t - s)
\* and shows it, whatever time had passed before s while it was paused.
C19_PausedTimeNotCounted ==
    lastCall.op = "StopwatchLogic.tick"
        => /\ stopwatchLogic.elapsedTime = swRun.base + (now - swRun.since)
           /\ stopwatchLogic.log = <<swRun.base + (now - swRun.since)>>

\* A callback fired after the stopwatch had run, been paused for a while and
\* been started again.
C19_Witness ==
    /\ lastCall.op = "StopwatchLogic.tick"
    /\ swRun.base > 0
    /\ swRun.since > swRun.base
    /\ now > swRun.since
    /\ stopwatchLogic.elapsedTime = swRun.base + (now - swRun.since)

\* C20: continueCountdown(), called or reached by a click on the button, at
\* instant s on a countdown that is not running and has remainingTime = r > 0
\* does what start() does: it sets endTime = s + r and the countdown runs;
\* every interval callback that fires at an instant t before the next pause,
\* clear, reset or end, with r - (t - s) > 0, sets remainingTime to
\* r - (t - s), whatever time had passed while it was paused.
C20_ContinueKeepsRemaining ==
    [][/\ (/\ \/ lastCall'.op = "CountdownLogic.continueCountdown"
              \/ (/\ lastCall'.op = "CountdownLogic.toggleStartPauseContinue"
                  /\ countdownLogic.startPauseContinueButton # "Start")
           /\ ~countdownLogic.isRunning
           /\ countdownLogic.remainingTime > 0)
            => /\ countdownLogic'.endTime = now + countdownLogic.remainingTime
               /\ countdownLogic'.remainingTime = countdownLogic.remainingTime
               /\ countdownLogic'.isRunning
               /\ countdownLogic' = CountdownLogic_start(Entered(countdownLogic), now)
       /\ (/\ lastCall'.op = "CountdownLogic.tick"
           /\ cdRun.phase = "continued"
           /\ cdRun.base - (now - cdRun.since) > 0)
            => /\ countdownLogic'.remainingTime = cdRun.base - (now - cdRun.since)
               /\ countdownLogic'.log = <<cdRun.base - (now - cdRun.since)>>
               /\ countdownLogic'.isRunning]_vars

\* A callback fired after the countdown had run, been paused for a while and
\* been continued.
C20_Witness ==
    /\ lastCall.op = "CountdownLogic.tick"
    /\ cdRun.phase = "continued"
    /\ cdRun.since > 0
    /\ now > cdRun.since
    /\ cdRun.base < countdownLogic.initialTimeMs
    /\ countdownLogic.endTime < now + countdownLogic.initialTimeMs
    /\ countdownLogic.remainingTime > 0
    /\ countdownLogic.remainingTime = cdRun.base - (now - cdRun.since)

\* C21: what an interval callback stores is a function of the instant it
\* fires at and of the anchor alone: the stopwatch's callback stores and
\* shows now - startTime, where startTime is the anchor its start() set
\* (the instant of the start minus elapsedTime at the start), and the
\* countdown's callback stores endTime - now, or 0 when that is not positive;
\* so callbacks that fired before it do not change its result.
C21_TickFromInstants ==
    /\ lastCall.op = "StopwatchLogic.tick"
           => /\ stopwatchLogic.startTime = swRun.since - swRun.base
              /\ stopwatchLogic.elapsedTime = now - stopwatchLogic.startTime
              /\ stopwatchLogic.log = <<now - stopwatchLogic.startTime>>
    /\ lastCall.op = "CountdownLogic.tick"
           => countdownLogic.remainingTime =
                  IF countdownLogic.endTime - now <= 0 THEN 0
                  ELSE countdownLogic.endTime - now

\* A callback of the stopwatch fired two or more instants after the start,
\* while the countdown was running with part of its time used up.
C21_Witness ==
    /\ lastCall.op = "StopwatchLogic.tick"
    /\ stopwatchLogic.elapsedTime >= 2
    /\ countdownLogic.isRunning
    /\ countdownLogic.remainingTime > 0
    /\ countdownLogic.remainingTime < countdownLogic.initialTimeMs

\* The handlers that may change the stopwatch that is not running, and the
\* countdown that is not running.
StopwatchStarters ==
    {"StopwatchLogic.start", "StopwatchLogic.toggleStartPause", "StopwatchLogic.clear"}

CountdownStarters ==
    {"CountdownLogic.start", "CountdownLogic.continueCountdown",
     "CountdownLogic.toggleStartPauseContinue", "CountdownLogic.clear",
     "CountdownLogic.reset", "CountdownLogic.setInitialTime"}

\* C22: while an engine is not running (after pause() or clear(), or after
\* the countdown's end) its interval callback does not fire, and every step
\* that is not a start(), continueCountdown(), click on its button, clear(),
\* reset() or setInitialTime() of that engine, the clock advancing among them,
\* leaves its elapsedTime or remainingTime and its display as they were.
C22_NoTickAfterStop ==
    [][/\ ~stopwatchLogic.isRunning
            => /\ lastCall'.op # "StopwatchLogic.tick"
               /\ lastCall'.op \notin StopwatchStarters
                    => /\ stopwatchLogic'.elapsedTime = stopwatchLogic.elapsedTime
                       /\ stopwatchLogic'.displayManager = stopwatchLogic.displayManager
                       /\ ~stopwatchLogic'.isRunning
       /\ ~countdownLogic.isRunning
            => /\ lastCall'.op # "CountdownLogic.tick"
               /\ lastCall'.op \notin CountdownStarters
                    => /\ countdownLogic'.remainingTime = countdownLogic.remainingTime
                       /\ countdownLogic'.displayManager = countdownLogic.displayManager
                       /\ ~countdownLogic'.isRunning]_vars

\* The clock advanced past both engines after each had run and been paused.
C22_Witness ==
    /\ lastCall.op = "advance"
    /\ ~stopwatchLogic.isRunning
    /\ stopwatchLogic.timer = "cleared"
    /\ stopwatchLogic.elapsedTime > 0
    /\ now > stopwatchLogic.startTime + stopwatchLogic.elapsedTime
    /\ ~countdownLogic.isRunning
    /\ countdownLogic.startPauseContinueButton = "Continue"
    /\ countdownLogic.remainingTime > 0
    /\ countdownLogic.remainingTime < countdownLogic.initialTimeMs
    /\ now > countdownLogic.endTime - countdownLogic.remainingTime

\* C23: reset() of the countdown, running or not, leaves it not running with
\* no interval callback registered and initialTimeMs = remainingTime = 0;
\* clear() leaves initialTimeMs as it was.
C23_ResetZeroesClearKeeps ==
    [][/\ lastCall'.op = "CountdownLogic.reset"
            => /\ countdownLogic'.initialTimeMs = 0
               /\ countdownLogic'.remainingTime = 0
               /\ ~countdownLogic'.isRunning
               /\ countdownLogic'.timer # "live"
               /\ countdownLogic'.intervals = 0
       /\ lastCall'.op = "CountdownLogic.clear"
            => countdownLogic'.initialTimeMs = countdownLogic.initialTimeMs]_vars

\* reset() was called on a running countdown.
C23_Witness ==
    /\ lastCall.op = "CountdownLogic.reset"
    /\ lastCall.branch = "running"
    /\ countdownLogic.timer = "cleared"
    /\ countdownLogic.endTime > 0
    /\ countdownLogic.initialTimeMs = 0
    /\ countdownLogic.remainingTime = 0

\* C24: in the wired application the stopwatch and the countdown are never
\* both running, and neither is running while the selection screen is shown.
C24_OneEngineAtATime ==
    /\ ~(stopwatchLogic.isRunning /\ countdownLogic.isRunning)
    /\ ~(stopwatchLogic.intervals > 0 /\ countdownLogic.intervals > 0)
    /\ appRouter.currentScreenId = "selection-screen"
           => /\ ~stopwatchLogic.isRunning
              /\ ~countdownLogic.isRunning
              /\ stopwatchLogic.intervals = 0
              /\ countdownLogic.intervals = 0

\* The countdown is running on its screen after the stopwatch had run and
\* been left with the back button.
C24_Witness ==
    /\ countdownLogic.isRunning
    /\ appRouter.currentScreenId = "countdown-display-form"
    /\ stopwatchLogic.timer = "cleared"
    /\ stopwatchLogic.startTime > 0
    /\ ~stopwatchLogic.isRunning

\* C25: a press of a key and a click on Clear of the input leave the
\* countdown as it is, set and running or not: initialTimeMs, remainingTime,
\* isRunning and every other field; and initialTimeMs changes only with a
\* click on Set or a reset().
C25_InputLeavesCountdown ==
    [][/\ lastCall'.op \in {"CountdownInputManager.handleNumberInput",
                            "CountdownInputManager.clearInput"}
            => countdownLogic' = countdownLogic
       /\ countdownLogic'.initialTimeMs # countdownLogic.initialTimeMs
            => lastCall'.op \in {"CountdownInputManager.triggerSet",
                                 "CountdownLogic.reset"}]_vars

\* A key was accepted while the countdown, set to another value, was running
\* with part of its time used up.
C25_Witness ==
    /\ lastCall.op = "CountdownInputManager.handleNumberInput"
    /\ lastCall.branch = "accepted"
    /\ countdownLogic.isRunning
    /\ countdownLogic.initialTimeMs > 0
    /\ countdownLogic.remainingTime < countdownLogic.initialTimeMs
    /\ countdownInputManager.inputMs # countdownLogic.initialTimeMs
    /\ lastCall.args[2] = countdownLogic.initialTimeMs

\* C26: after a click on a back button the selection screen is shown, the
\* stopwatch has elapsedTime = 0 and is not running, the countdown has
\* initialTimeMs = remainingTime = 0 and is not running, and inputMs = 0;
\* after a click on the stopwatch option the stopwatch screen is shown with
\* elapsedTime = 0 and the stopwatch not running; after a click on the
\* countdown option the input screen is shown with inputMs = 0.
C26_NavigationResets ==
    /\ lastCall.op = "back-button"
           => /\ appRouter.currentScreenId = "selection-screen"
              /\ stopwatchLogic.elapsedTime = 0
              /\ ~stopwatchLogic.isRunning
              /\ stopwatchLogic.intervals = 0
              /\ countdownLogic.initialTimeMs = 0
              /\ countdownLogic.remainingTime = 0
              /\ ~countdownLogic.isRunning
              /\ countdownLogic.intervals = 0
              /\ countdownInputManager.inputMs = 0
    /\ lastCall.op = "stopwatch-option"
           => /\ appRouter.currentScreenId = "stopwatch-form"
              /\ stopwatchLogic.elapsedTime = 0
              /\ ~stopwatchLogic.isRunning
              /\ stopwatchLogic.displayManager = Shown(0)
    /\ lastCall.op = "countdown-option"
           => /\ appRouter.currentScreenId = "countdown-input-form"
              /\ countdownInputManager.inputMs = 0
              /\ countdownInputManager.displayManager = Shown(0)

\* The back button was clicked after both the stopwatch and the countdown
\* had run, the stopwatch at a later instant than 0.
C26_Witness ==
    /\ lastCall.op = "back-button"
    /\ stopwatchLogic.timer = "cleared"
    /\ stopwatchLogic.startTime > 0
    /\ countdownLogic.timer = "cleared"
    /\ countdownLogic.endTime > 0
    /\ countdownLogic.remainingTime = 0

\* C27: 0 <= remainingTime <= initialTimeMs after every call and callback of
\* the countdown.
C27_RemainingWithinInitial ==
    /\ 0 <= countdownLogic.remainingTime
    /\ countdownLogic.remainingTime <= countdownLogic.initialTimeMs

\* C28: for every ms >= 0 handed to DisplayManager.update the texts shown
\* read as hours = floor(ms / 3600000), minutes = floor((ms mod 3600000) /
\* 60000), seconds = floor((ms mod 60000) / 1000) and milliseconds = ms mod
\* 1000, so that hours*3600000 + minutes*60000 + seconds*1000 + milliseconds
\* = ms with minutes <= 59, seconds <= 59 and milliseconds <= 999.
C28_FieldsOfFormatter ==
    (lastCall.op = "CountdownLogic.setInitialTime" /\ lastCall.args[1] >= 0)
        => LET ms == lastCall.args[1]
               hours == ParseInt(countdownLogic.displayManager.hours)
               minutes == ParseInt(countdownLogic.displayManager.minutes)
               seconds == ParseInt(countdownLogic.displayManager.seconds)
               millis == ParseInt(countdownLogic.displayManager.milliseconds)
           IN  /\ \A i \in 1..Len(countdownLogic.displayManager.hours) :
                      IsDigit(countdownLogic.displayManager.hours[i])
               /\ hours = ms \div 3600000
               /\ minutes = (ms % 3600000) \div 60000
               /\ seconds = (ms % 60000) \div 1000
               /\ millis = ms % 1000
               /\ hours * 3600000 + minutes * 60000 + seconds * 1000 + millis = ms
               /\ minutes <= 59
               /\ seconds <= 59
               /\ millis <= 999

\* A value of 100 hours, 59 minutes and 999 milliseconds was shown.
C28_Witness ==
    /\ lastCall.op = "CountdownLogic.setInitialTime"
    /\ lastCall.args[1] >= 100 * MS_PER_HOUR + 59 * MS_PER_MINUTE
    /\ Len(countdownLogic.displayManager.hours) = 3
    /\ countdownLogic.displayManager.minutes = <<"5", "9">>
    /\ countdownLogic.displayManager.milliseconds = <<"9", "9", "9">>

====
